---- MODULE Spec2Model ----
(***************************************************************************)
(* Model of the checklist form wizard (FormModal) and of the pure          *)
(* derivations it renders from: filteredQuestions, categoriesWithQuestions,*)
(* totalSteps and validateCurrentStep.                                     *)
(*                                                                         *)
(* One action models one event handler or one query completion, together   *)
(* with the effects React runs after the state change it makes.            *)
(***************************************************************************)
EXTENDS Integers, Sequences, FiniteSets, TLC

VARIABLES
    isOpen,               \* prop isOpen
    currentStep,          \* useState(2)
    formData,             \* useState<FormData>
    checklists,           \* query data, [] until resolved
    checklistWorkTasks,   \* query data, [] until resolved
    allWorkTasks,         \* query data, [] until resolved
    workStations,         \* query data, [] until resolved
    shifts,               \* query data, [] until resolved
    categories,           \* query data, [] until resolved
    questions,            \* query data, [] until resolved
    allQuestionWorkTasks, \* query data, [] until resolved
    resolved,             \* names of the queries whose fetch has completed
    fetching,             \* names of the queries whose request is in flight
    submitMutation,       \* useMutation state: isPending and the payload sent
    closedWhilePending,   \* history: the modal was closed since that payload was sent
    toast,                \* the notification the latest event raised, if any
    localStorage,         \* the keys window.localStorage holds an item for
    location,             \* window.location.href, as a path
    lastRequest           \* the latest API request: what it sent and how it ended

vars == <<isOpen, currentStep, formData, checklists, checklistWorkTasks,
          allWorkTasks, workStations, shifts, categories, questions,
          allQuestionWorkTasks, resolved, fetching, submitMutation,
          closedWhilePending, toast, localStorage, location, lastRequest>>

\* the state of the form
form == <<isOpen, currentStep, formData, checklists, checklistWorkTasks,
          allWorkTasks, workStations, shifts, categories, questions,
          allQuestionWorkTasks, resolved, fetching, submitMutation,
          closedWhilePending, toast>>

\* the state of the browser the API requests read and write
browser == <<localStorage, location, lastRequest>>

data == <<checklists, checklistWorkTasks, allWorkTasks, workStations, shifts,
          categories, questions, allQuestionWorkTasks, resolved>>

----------------------------------------------------------------------------
(* Bounds of the model *)

\* longest operator name typed into the name field
MaxNameLen == 1
\* work tasks of an arbitrary work-task list, with ids 1..NumWorkTasks
NumWorkTasks == 2
\* categories of an arbitrary category list, with ids 1..NumCategories
NumCategories == 2
\* questions of an arbitrary question list, with ids 1..MaxQuestions
MaxQuestions == 3
\* questions of an arbitrary category shown at a question step
MaxStepQuestions == 2

----------------------------------------------------------------------------
(* Values *)

\* null of the id fields (number | null); database ids start at 1
Null == 0

\* the preselectedChecklistId prop
preselectedChecklistId == 1

WorkTaskIds == 1..NumWorkTasks
CategoryIds == 1..NumCategories

Range(s) == {s[i] : i \in DOMAIN s}

\* s.filter(f) is SelectSeq(s, f); s.some(f) is \E x \in Range(s) : f(x);
\* s.find(f) is the head of s.filter(f), undefined when that is empty

\* all sequences over S of length at most n
SeqsUpTo(S, n) == UNION {[1..k -> S] : k \in 0..n}

\* a JavaScript value of the responses record (Record<string, any>)
JsUndefined == [typ |-> "undefined", b |-> FALSE, n |-> 0, s |-> ""]
JsNull == [typ |-> "null", b |-> FALSE, n |-> 0, s |-> ""]
JsBool(v) == [typ |-> "boolean", b |-> v, n |-> 0, s |-> ""]
JsNum(v) == [typ |-> "number", b |-> FALSE, n |-> v, s |-> ""]
JsStr(v) == [typ |-> "string", b |-> FALSE, n |-> 0, s |-> v]

\* responses[id]: undefined for a key the record does not hold
Lookup(responses, id) ==
    IF id \in DOMAIN responses THEN responses[id] ELSE JsUndefined

\* { ...prev.responses, [id]: value }
Store(responses, id, value) == (id :> value) @@ responses

NoResponses == [id \in {} |-> JsUndefined]

\* characters of an operator name: a blank and a letter
Blank == " "
NameChars == {Blank, "a"}
OperatorNames == SeqsUpTo(NameChars, MaxNameLen)

\* String.prototype.trim on a name: leading and trailing blanks removed
RECURSIVE TrimLeft(_)
TrimLeft(s) ==
    IF s # <<>> /\ Head(s) = Blank THEN TrimLeft(Tail(s)) ELSE s

RECURSIVE TrimRight(_)
TrimRight(s) ==
    IF s # <<>> /\ s[Len(s)] = Blank
    THEN TrimRight(SubSeq(s, 1, Len(s) - 1))
    ELSE s

NoTrim(s) == s

Trim(s) == TrimRight(TrimLeft(s))

----------------------------------------------------------------------------
(* Derived values of a render *)

\* a Checklist; found = FALSE stands for undefined (checklists.find found none),
\* whose flags read through ?. are all falsy
UndefinedChecklist ==
    [found |-> FALSE, id |-> Null, includeWorkTasks |-> FALSE,
     includeWorkStations |-> FALSE, includeShifts |-> FALSE]

Checklist(id, tasks, stations, shiftsToo) ==
    [found |-> TRUE, id |-> id, includeWorkTasks |-> tasks,
     includeWorkStations |-> stations, includeShifts |-> shiftsToo]

\* checklists.find(c => c.id === formData.checklistId)
CurrentChecklist(cls, fd) ==
    LET found == SelectSeq(cls, LAMBDA c : c.id = fd.checklistId)
    IN  IF found = <<>> THEN UndefinedChecklist ELSE Head(found)

currentChecklist == CurrentChecklist(checklists, formData)

\* allWorkTasks.filter(wt => checklistWorkTasks.some(cwt => cwt.workTaskId === wt.id))
WorkTasks(cwts, awts) ==
    SelectSeq(awts, LAMBDA wt : \E cwt \in Range(cwts) : cwt.workTaskId = wt.id)

workTasks == WorkTasks(checklistWorkTasks, allWorkTasks)

\* (mutant) every selected work task is taken to have stations
HasStationsAlways(wts, id) == TRUE

\* workTasks.find(task => task.id === id)?.hasStations, undefined read as false
HasStations(wts, id) ==
    LET found == SelectSeq(wts, LAMBDA task : task.id = id)
    IN  IF found = <<>> THEN FALSE ELSE Head(found).hasStations

\* (mutant) a question without links is hidden
VisibleOnlyLinked(q, links, workTaskId) ==
    \E qwt \in Range(links) :
        qwt.questionId = q.id /\ qwt.workTaskId = workTaskId

\* a question is shown when it has no link at all or a link to the selected task
Visible(q, links, workTaskId) ==
    LET questionWorkTasks == SelectSeq(links, LAMBDA qwt : qwt.questionId = q.id)
    IN  IF Len(questionWorkTasks) = 0
        THEN TRUE
        ELSE \E qwt \in Range(questionWorkTasks) : qwt.workTaskId = workTaskId

\* (mutant) the checklist's includeWorkTasks flag is not consulted
FilterQuestionsIgnoringFlag(qs, links, workTaskId, checklist) ==
    IF workTaskId = Null
    THEN qs
    ELSE SelectSeq(qs, LAMBDA q : Visible(q, links, workTaskId))

FilterQuestions(qs, links, workTaskId, checklist) ==
    IF workTaskId = Null \/ ~checklist.includeWorkTasks
    THEN qs
    ELSE SelectSeq(qs, LAMBDA q : Visible(q, links, workTaskId))

filteredQuestions ==
    FilterQuestions(questions, allQuestionWorkTasks, formData.workTaskId,
                    currentChecklist)

\* (mutant) categories without questions are kept
KeepAllCategories(cats, fqs) == cats

CategoriesWithQuestions(cats, fqs) ==
    SelectSeq(cats, LAMBDA category :
                        \E question \in Range(fqs) :
                            question.categoryId = category.id)

categoriesWithQuestions == CategoriesWithQuestions(categories, filteredQuestions)

\* (mutant) the steps are counted from the step number 2 of the first one
TotalStepsFromStepNumber(cwq) == 2 + Len(cwq)

TotalSteps(cwq) == 1 + Len(cwq)

totalSteps == TotalSteps(categoriesWithQuestions)

\* progress, a fraction kept exact as numerator over denominator:
\* totalSteps > 1 ? ((currentStep - 2) / (totalSteps - 1)) * 100 : 0
Progress(step, total) ==
    IF total > 1
    THEN [num |-> (step - 2) * 100, den |-> total - 1]
    ELSE [num |-> 0, den |-> 1]

progress == Progress(currentStep, totalSteps)

----------------------------------------------------------------------------
(* validateCurrentStep *)

Label(field, text) == [field |-> field, text |-> text]

OperatorLabel == Label("Operatörsnamn", "")
WorkTaskLabel == Label("Arbetsuppgift", "")
WorkStationLabel == Label("Arbetsstation", "")
ShiftLabel == Label("Skift", "")
QuestionLabel(q) == Label("Fråga", q.text)

\* (mutant) the checks stop at the first missing field
IdentificationMissingFirstOnly(fd, checklist, wts) ==
    IF Trim(fd.operatorName) = <<>> THEN <<OperatorLabel>>
    ELSE IF checklist.includeWorkTasks /\ fd.workTaskId = Null
    THEN <<WorkTaskLabel>>
    ELSE IF /\ checklist.includeWorkStations
            /\ fd.workTaskId # Null
            /\ HasStations(wts, fd.workTaskId)
            /\ fd.workStationId = Null
    THEN <<WorkStationLabel>>
    ELSE IF checklist.includeShifts /\ fd.shiftId = Null
    THEN <<ShiftLabel>>
    ELSE <<>>

\* the identification step's four checks, each pushing its label or nothing
IdentificationMissing(fd, checklist, wts) ==
       (IF Trim(fd.operatorName) = <<>> THEN <<OperatorLabel>> ELSE <<>>)
    \o (IF checklist.includeWorkTasks /\ fd.workTaskId = Null
        THEN <<WorkTaskLabel>> ELSE <<>>)
    \o (IF /\ checklist.includeWorkStations
           /\ fd.workTaskId # Null
           /\ HasStations(wts, fd.workTaskId)
           /\ fd.workStationId = Null
        THEN <<WorkStationLabel>> ELSE <<>>)
    \o (IF checklist.includeShifts /\ fd.shiftId = Null
        THEN <<ShiftLabel>> ELSE <<>>)

\* (mutant) a checkbox is tested for emptiness like the other types
UnansweredEmptyOnly(q, response) ==
    response = JsUndefined \/ response = JsNull \/ response = JsStr("")

\* (mutant) the other types are tested for falsiness: !response
UnansweredFalsy(q, response) ==
    IF q.type = "check"
    THEN response # JsBool(TRUE)
    ELSE response \in {JsUndefined, JsNull, JsStr(""), JsBool(FALSE), JsNum(0)}

\* the test validateCurrentStep makes of one required question's response
Unanswered(q, response) ==
    IF q.type = "check"
    THEN response # JsBool(TRUE)
    ELSE response = JsUndefined \/ response = JsNull \/ response = JsStr("")

\* the questions of the category shown at a question step (none when the
\* step has no category)
CategoryQuestions(step, cwq, fqs) ==
    IF (step - 2) \in DOMAIN cwq
    THEN SelectSeq(fqs, LAMBDA q : q.categoryId = cwq[step - 2].id)
    ELSE <<>>

QuestionMissing(step, fd, cwq, fqs) ==
    LET unanswered ==
            SelectSeq(CategoryQuestions(step, cwq, fqs),
                      LAMBDA q : q.isRequired
                                 /\ Unanswered(q, Lookup(fd.responses, q.id)))
    IN  [i \in 1..Len(unanswered) |-> QuestionLabel(unanswered[i])]

MissingFields(step, fd, checklist, wts, cwq, fqs) ==
    IF step = 2 THEN IdentificationMissing(fd, checklist, wts)
    ELSE IF step >= 3 THEN QuestionMissing(step, fd, cwq, fqs)
    ELSE <<>>

missingFields ==
    MissingFields(currentStep, formData, currentChecklist, workTasks,
                  categoriesWithQuestions, filteredQuestions)

\* canProceed: the boolean gate.  The name is tested as it is (no trim) and
\* the category's questions are taken from the unfiltered question list
CanProceed(step, fd, checklist, wts, cwq, qs) ==
    IF step = 2
    THEN /\ fd.operatorName # <<>>
         /\ ~(checklist.includeWorkTasks /\ fd.workTaskId = Null)
         /\ ~(/\ checklist.includeWorkStations
               /\ fd.workTaskId # Null
               /\ HasStations(wts, fd.workTaskId)
               /\ fd.workStationId = Null)
         /\ ~(checklist.includeShifts /\ fd.shiftId = Null)
    ELSE IF step >= 3
    THEN IF (step - 2) \in DOMAIN cwq
         THEN \A q \in Range(SelectSeq(qs, LAMBDA question :
                                           question.categoryId = cwq[step - 2].id)) :
                  q.isRequired => ~Unanswered(q, Lookup(fd.responses, q.id))
         ELSE TRUE
    ELSE TRUE

canProceed ==
    CanProceed(currentStep, formData, currentChecklist, workTasks,
               categoriesWithQuestions, questions)

\* a toast; fields holds the labels joined into the description
Toast(title, fields) == [title |-> title, fields |-> fields]
NoToast == Toast("", <<>>)
MissingToast(fields) == Toast("Obligatoriska fält saknas", fields)
SavedToast == Toast("Kontroll sparad!", <<>>)
ErrorToast == Toast("Fel", <<>>)

----------------------------------------------------------------------------
(* Server data *)

Question(id, categoryId, type, isRequired) ==
    [id |-> id, categoryId |-> categoryId, type |-> type,
     isRequired |-> isRequired, text |-> ToString(id),
     options |-> IF type = "val" THEN <<"A", "B">> ELSE <<>>]

Category(id) == [id |-> id]
WorkTask(id, hasStations) == [id |-> id, hasStations |-> hasStations]
WorkStation(id, workTaskId) == [id |-> id, workTaskId |-> workTaskId]
Shift(id) == [id |-> id]
ChecklistWorkTask(checklistId, workTaskId) ==
    [checklistId |-> checklistId, workTaskId |-> workTaskId]
QuestionWorkTask(questionId, workTaskId) ==
    [questionId |-> questionId, workTaskId |-> workTaskId]

RECURSIVE Flatten(_)
Flatten(ss) == IF ss = <<>> THEN <<>> ELSE Head(ss) \o Flatten(Tail(ss))

\* GET /api/categories?checklistId=..: the categories of the checklist, in
\* the server's order
ServerCategories == <<Category(2), Category(1)>>

\* GET /api/questions?categoryId=c: category 1 holds a required checkbox and a
\* required single-choice question, category 2 a required text question
ServerQuestions(c) ==
    IF c = 1
    THEN <<Question(1, 1, "check", TRUE), Question(2, 1, "val", TRUE)>>
    ELSE <<Question(3, 2, "text", TRUE)>>

\* GET /api/questions/q/work-tasks: question 2 is tied to work task 1,
\* question 3 to work task 2, question 1 to none
ServerQuestionWorkTasks(q) ==
    CASE q = 2 -> <<QuestionWorkTask(2, 1)>>
      [] q = 3 -> <<QuestionWorkTask(3, 2)>>
      [] OTHER -> <<>>

\* GET /api/work-tasks: work task 1 has stations, work task 2 may have
ServerWorkTasks(secondHasStations) ==
    <<WorkTask(1, TRUE), WorkTask(2, secondHasStations)>>

\* GET /api/checklists/../work-tasks: none, the first or both work tasks
ServerChecklistWorkTasks(checklistId) ==
    {<<>>,
     <<ChecklistWorkTask(checklistId, 1)>>,
     <<ChecklistWorkTask(checklistId, 1), ChecklistWorkTask(checklistId, 2)>>}

\* GET /api/work-stations: one station for each work task
ServerWorkStations == <<WorkStation(1, 1), WorkStation(2, 2)>>

\* GET /api/shifts
ServerShifts == <<Shift(1)>>

----------------------------------------------------------------------------
(* Effects *)

EmptyForm ==
    [checklistId |-> preselectedChecklistId, operatorName |-> <<>>,
     workTaskId |-> Null, workStationId |-> Null, shiftId |-> Null,
     responses |-> NoResponses]

\* the updater of the effect on [preselectedChecklistId], for a new id
ChecklistChanged(fd, id) ==
    [fd EXCEPT !.checklistId = id, !.workTaskId = Null, !.workStationId = Null]

\* (mutant) the single candidate is not selected
AutoSelectOnlyClears(fd, wts) ==
    IF Len(wts) = 0 /\ fd.workTaskId # Null
    THEN [fd EXCEPT !.workTaskId = Null, !.workStationId = Null]
    ELSE fd

\* the effect on [workTasks.length, formData.workTaskId]
AutoSelect(fd, wts) ==
    IF Len(wts) = 1 /\ fd.workTaskId = Null
    THEN [fd EXCEPT !.workTaskId = wts[1].id]
    ELSE IF Len(wts) = 0 /\ fd.workTaskId # Null
         THEN [fd EXCEPT !.workTaskId = Null, !.workStationId = Null]
         ELSE fd

\* (mutant) the step counter survives the reset
ResetFormKeepingStep ==
    /\ currentStep' = currentStep
    /\ formData' = AutoSelect(EmptyForm, workTasks)

\* (mutant) the answers survive the reset
ResetFormKeepingResponses ==
    /\ currentStep' = 2
    /\ formData' = AutoSelect([EmptyForm EXCEPT !.responses = formData.responses],
                              workTasks)

\* resetForm, and the body of the effect on [isOpen, preselectedChecklistId]
ResetForm ==
    /\ currentStep' = 2
    /\ formData' = AutoSelect(EmptyForm, workTasks)

Idle == [isPending |-> FALSE, variables |-> NoResponses]

----------------------------------------------------------------------------
(* The browser: localStorage, the location and the API requests *)

\* the key apiRequest and the query functions read the token from
TokenKey == "authToken"

\* the keys throwIfResNotOk removes on a 401
RemovedKeys == {"auth_token", "auth_user", "auth_tenant"}

StorageKeys == {TokenKey} \cup RemovedKeys

HomePath == "/"
LoginPath == "/login"

\* response statuses: a success, the unauthorized one and a server error
Statuses == {200, 401, 500}

\* res.ok
Ok(status) == status \in 200..299

\* the Authorization header of a request: sent when the token item exists
Authorization(storage) == TokenKey \in storage

\* throwIfResNotOk: the items removed from localStorage
StorageAfter(status, storage) ==
    IF ~Ok(status) /\ status = 401 THEN storage \ RemovedKeys ELSE storage

\* throwIfResNotOk: the redirect
LocationAfter(status, href) ==
    IF ~Ok(status) /\ status = 401 THEN LoginPath ELSE href

NoRequest ==
    [via |-> "", authorization |-> FALSE, status |-> 0, result |-> ""]

Request(via, authorization, status, result) ==
    [via |-> via, authorization |-> authorization, status |-> status,
     result |-> result]

\* the session of a signed-in user, as the requests see it
SignedIn ==
    /\ localStorage = {TokenKey}
    /\ location = HomePath
    /\ lastRequest = NoRequest

----------------------------------------------------------------------------
(* Initial state: the modal mounted closed, nothing fetched *)

Init ==
    /\ isOpen = FALSE
    /\ currentStep = 2
    /\ formData = EmptyForm
    /\ checklists = <<>>
    /\ checklistWorkTasks = <<>>
    /\ allWorkTasks = <<>>
    /\ workStations = <<>>
    /\ shifts = <<>>
    /\ categories = <<>>
    /\ questions = <<>>
    /\ allQuestionWorkTasks = <<>>
    /\ resolved = {}
    /\ fetching = {}
    /\ submitMutation = Idle
    /\ closedWhilePending = FALSE
    /\ toast = NoToast
    /\ SignedIn

----------------------------------------------------------------------------
(* Queries.  The request of a query is sent at the first render at which   *)
(* the query is enabled, and it is sent once (staleTime: Infinity); its     *)
(* completion stores the data, whatever the modal's state is by then.      *)

QueryNames == {"checklists", "checklistWorkTasks", "allWorkTasks",
               "workStations", "shifts", "categories", "questions",
               "allQuestionWorkTasks"}

Pending(query) == query \notin resolved

\* (mutant) the query is enabled for every checklist
ChecklistWorkTasksAlwaysEnabled ==
    isOpen /\ formData.checklistId # Null

ChecklistWorkTasksEnabled ==
    isOpen /\ formData.checklistId # Null /\ currentChecklist.includeWorkTasks

\* the enabled option of each useQuery
QueryEnabled(query) ==
    CASE query = "checklists" -> isOpen
      [] query = "checklistWorkTasks" -> ChecklistWorkTasksEnabled
      [] query = "allWorkTasks" -> isOpen /\ Len(checklistWorkTasks) > 0
      [] query = "workStations" ->
             /\ isOpen /\ currentChecklist.includeWorkStations
             /\ formData.workTaskId # Null
      [] query = "shifts" -> isOpen /\ currentChecklist.includeShifts
      [] query = "categories" -> isOpen /\ formData.checklistId # Null
      [] query = "questions" ->
             isOpen /\ formData.checklistId # Null /\ Len(categories) > 0
      [] query = "allQuestionWorkTasks" -> isOpen /\ Len(questions) > 0

\* the render after an event sends the request of every enabled query that
\* has no data yet; a request in flight stays in flight
StartFetches ==
    fetching' = {query \in QueryNames :
                    /\ Pending(query)'
                    /\ query \in fetching \/ QueryEnabled(query)'}

FetchChecklists ==
    /\ "checklists" \in fetching
    /\ \E tasks, stations, shiftsToo \in BOOLEAN :
           checklists' =
               <<Checklist(preselectedChecklistId, tasks, stations, shiftsToo)>>
    /\ resolved' = resolved \cup {"checklists"}
    /\ toast' = NoToast
    /\ UNCHANGED <<isOpen, currentStep, formData, checklistWorkTasks,
                   allWorkTasks, workStations, shifts, categories, questions,
                   allQuestionWorkTasks, submitMutation, closedWhilePending>>
    /\ StartFetches
    /\ UNCHANGED browser

FetchChecklistWorkTasks ==
    /\ "checklistWorkTasks" \in fetching
    /\ \E cwts \in ServerChecklistWorkTasks(formData.checklistId) :
           /\ checklistWorkTasks' = cwts
           /\ formData' = AutoSelect(formData, WorkTasks(cwts, allWorkTasks))
    /\ resolved' = resolved \cup {"checklistWorkTasks"}
    /\ toast' = NoToast
    /\ UNCHANGED <<isOpen, currentStep, checklists, allWorkTasks, workStations,
                   shifts, categories, questions, allQuestionWorkTasks,
                   submitMutation, closedWhilePending>>
    /\ StartFetches
    /\ UNCHANGED browser

FetchAllWorkTasks ==
    /\ "allWorkTasks" \in fetching
    /\ \E secondHasStations \in BOOLEAN :
           LET awts == ServerWorkTasks(secondHasStations)
           IN  /\ allWorkTasks' = awts
               /\ formData' = AutoSelect(formData, WorkTasks(checklistWorkTasks, awts))
    /\ resolved' = resolved \cup {"allWorkTasks"}
    /\ toast' = NoToast
    /\ UNCHANGED <<isOpen, currentStep, checklists, checklistWorkTasks,
                   workStations, shifts, categories, questions,
                   allQuestionWorkTasks, submitMutation, closedWhilePending>>
    /\ StartFetches
    /\ UNCHANGED browser

FetchWorkStations ==
    /\ "workStations" \in fetching
    /\ workStations' = ServerWorkStations
    /\ resolved' = resolved \cup {"workStations"}
    /\ toast' = NoToast
    /\ UNCHANGED <<isOpen, currentStep, formData, checklists, checklistWorkTasks,
                   allWorkTasks, shifts, categories, questions,
                   allQuestionWorkTasks, submitMutation, closedWhilePending>>
    /\ StartFetches
    /\ UNCHANGED browser

FetchShifts ==
    /\ "shifts" \in fetching
    /\ shifts' = ServerShifts
    /\ resolved' = resolved \cup {"shifts"}
    /\ toast' = NoToast
    /\ UNCHANGED <<isOpen, currentStep, formData, checklists, checklistWorkTasks,
                   allWorkTasks, workStations, categories, questions,
                   allQuestionWorkTasks, submitMutation, closedWhilePending>>
    /\ StartFetches
    /\ UNCHANGED browser

FetchCategories ==
    /\ "categories" \in fetching
    /\ categories' = ServerCategories
    /\ resolved' = resolved \cup {"categories"}
    /\ toast' = NoToast
    /\ UNCHANGED <<isOpen, currentStep, formData, checklists, checklistWorkTasks,
                   allWorkTasks, workStations, shifts, questions,
                   allQuestionWorkTasks, submitMutation, closedWhilePending>>
    /\ StartFetches
    /\ UNCHANGED browser

\* (mutant) a failed request ends the loop: the categories after it are not
\* asked for
AllQuestionsUntilFailure(cats, failed) ==
    LET firstFailed ==
            IF \E i \in DOMAIN cats : cats[i].id \in failed
            THEN CHOOSE i \in DOMAIN cats :
                     /\ cats[i].id \in failed
                     /\ \A j \in 1..(i - 1) : cats[j].id \notin failed
            ELSE Len(cats) + 1
    IN  Flatten([i \in 1..(firstFailed - 1) |-> ServerQuestions(cats[i].id)])

\* the questions queryFn: one request per category, a failed one skipped
AllQuestions(cats, failed) ==
    IF Len(cats) = 0 THEN <<>>
    ELSE Flatten([i \in DOMAIN cats |->
                     IF cats[i].id \in failed THEN <<>>
                     ELSE ServerQuestions(cats[i].id)])

FetchQuestions ==
    /\ "questions" \in fetching
    /\ \E failed \in SUBSET {c.id : c \in Range(categories)} :
           questions' = AllQuestions(categories, failed)
    /\ resolved' = resolved \cup {"questions"}
    /\ toast' = NoToast
    /\ UNCHANGED <<isOpen, currentStep, formData, checklists, checklistWorkTasks,
                   allWorkTasks, workStations, shifts, categories,
                   allQuestionWorkTasks, submitMutation, closedWhilePending>>
    /\ StartFetches
    /\ UNCHANGED browser

\* the allQuestionWorkTasks queryFn: one request per question, a failed one
\* skipped
AllQuestionWorkTasks(qs, failed) ==
    IF Len(qs) = 0 THEN <<>>
    ELSE Flatten([i \in DOMAIN qs |->
                     IF qs[i].id \in failed THEN <<>>
                     ELSE ServerQuestionWorkTasks(qs[i].id)])

FetchQuestionWorkTasks ==
    /\ "allQuestionWorkTasks" \in fetching
    /\ \E failed \in SUBSET {q.id : q \in Range(questions)} :
           allQuestionWorkTasks' = AllQuestionWorkTasks(questions, failed)
    /\ resolved' = resolved \cup {"allQuestionWorkTasks"}
    /\ toast' = NoToast
    /\ UNCHANGED <<isOpen, currentStep, formData, checklists, checklistWorkTasks,
                   allWorkTasks, workStations, shifts, categories, questions,
                   submitMutation, closedWhilePending>>
    /\ StartFetches
    /\ UNCHANGED browser

----------------------------------------------------------------------------
(* The parent opens and closes the modal *)

Open ==
    /\ ~isOpen
    /\ isOpen' = TRUE
    /\ toast' = NoToast
    /\ UNCHANGED <<currentStep, formData, data, submitMutation, closedWhilePending>>
    /\ StartFetches
    /\ UNCHANGED browser

\* onClose (the cancel button, the dialog's onOpenChange), then the effect
\* on isOpen resets the form
Close ==
    /\ isOpen
    /\ isOpen' = FALSE
    /\ ResetForm
    /\ toast' = NoToast
    /\ closedWhilePending' = submitMutation.isPending
    /\ UNCHANGED <<data, submitMutation>>
    /\ StartFetches
    /\ UNCHANGED browser

----------------------------------------------------------------------------
(* The identification step's fields (rendered at step 2) *)

SetOperatorName ==
    /\ isOpen /\ currentStep = 2
    /\ \E name \in OperatorNames :
           formData' = [formData EXCEPT !.operatorName = name]
    /\ toast' = NoToast
    /\ UNCHANGED <<isOpen, currentStep, data, submitMutation, closedWhilePending>>
    /\ StartFetches
    /\ UNCHANGED browser

\* (mutant) the station is kept whatever the new task is
SelectWorkTaskKeepingStation ==
    /\ isOpen /\ currentStep = 2 /\ currentChecklist.includeWorkTasks
    /\ \E task \in Range(workTasks) :
           formData' =
               AutoSelect([formData EXCEPT !.workTaskId = task.id], workTasks)
    /\ toast' = NoToast
    /\ UNCHANGED <<isOpen, currentStep, data, submitMutation, closedWhilePending>>
    /\ StartFetches
    /\ UNCHANGED browser

\* the work task select's onValueChange, then the auto-select effect
SelectWorkTask ==
    /\ isOpen /\ currentStep = 2 /\ currentChecklist.includeWorkTasks
    /\ \E task \in Range(workTasks) :
           formData' =
               AutoSelect([formData EXCEPT
                              !.workTaskId = task.id,
                              !.workStationId =
                                  IF HasStations(workTasks, task.id)
                                  THEN formData.workStationId ELSE Null],
                          workTasks)
    /\ toast' = NoToast
    /\ UNCHANGED <<isOpen, currentStep, data, submitMutation, closedWhilePending>>
    /\ StartFetches
    /\ UNCHANGED browser

\* the select is disabled unless the selected task has stations; its options
\* are the stations of the selected task
SelectWorkStation ==
    /\ isOpen /\ currentStep = 2 /\ currentChecklist.includeWorkStations
    /\ formData.workTaskId # Null
    /\ HasStations(workTasks, formData.workTaskId)
    /\ \E station \in Range(workStations) :
           /\ station.workTaskId = formData.workTaskId
           /\ formData' = [formData EXCEPT !.workStationId = station.id]
    /\ toast' = NoToast
    /\ UNCHANGED <<isOpen, currentStep, data, submitMutation, closedWhilePending>>
    /\ StartFetches
    /\ UNCHANGED browser

SelectShift ==
    /\ isOpen /\ currentStep = 2 /\ currentChecklist.includeShifts
    /\ \E shift \in Range(shifts) :
           formData' = [formData EXCEPT !.shiftId = shift.id]
    /\ toast' = NoToast
    /\ UNCHANGED <<isOpen, currentStep, data, submitMutation, closedWhilePending>>
    /\ StartFetches
    /\ UNCHANGED browser

----------------------------------------------------------------------------
(* The widgets of a question step *)

\* the values the widget of a question stores
WidgetValues(q) ==
    CASE q.type = "check" -> {JsBool(TRUE), JsBool(FALSE)}
      [] q.type \in {"ja_nej", "boolean"} -> {JsBool(TRUE), JsBool(FALSE)}
      [] q.type = "val" -> {JsStr(q.options[i]) : i \in DOMAIN q.options}
      [] q.type \in {"stjärnor", "humör"} -> {JsNum(1), JsNum(5)}
      [] q.type = "fil" -> {JsStr("A")}
      [] OTHER -> {JsStr(""), JsStr("A")}

SetResponse ==
    /\ isOpen /\ currentStep # 2
    /\ \E q \in Range(CategoryQuestions(currentStep, categoriesWithQuestions,
                                        filteredQuestions)) :
       \E value \in WidgetValues(q) :
           formData' = [formData EXCEPT
                           !.responses = Store(formData.responses, q.id, value)]
    /\ toast' = NoToast
    /\ UNCHANGED <<isOpen, currentStep, data, submitMutation, closedWhilePending>>
    /\ StartFetches
    /\ UNCHANGED browser

----------------------------------------------------------------------------
(* Navigation and submission *)

\* (mutant) a key whose stored value is null is left out of the payload
SubmitDataWithoutNulls(fd, checklist) ==
    LET base == [checklistId |-> fd.checklistId,
                 operatorName |-> fd.operatorName,
                 responses |-> fd.responses,
                 isCompleted |-> TRUE]
        withTask == IF checklist.includeWorkTasks /\ fd.workTaskId # Null
                    THEN ("workTaskId" :> fd.workTaskId) @@ base ELSE base
        withStation == IF checklist.includeWorkStations /\ fd.workStationId # Null
                       THEN ("workStationId" :> fd.workStationId) @@ withTask
                       ELSE withTask
    IN  IF checklist.includeShifts /\ fd.shiftId # Null
        THEN ("shiftId" :> fd.shiftId) @@ withStation ELSE withStation

\* (mutant) boolean answers are sent as the strings "true" and "false"
SubmitDataCoerced(fd, checklist) ==
    LET coerced == [id \in DOMAIN fd.responses |->
                       IF fd.responses[id].typ = "boolean"
                       THEN JsStr(IF fd.responses[id].b THEN "true" ELSE "false")
                       ELSE fd.responses[id]]
        base == [checklistId |-> fd.checklistId,
                 operatorName |-> fd.operatorName,
                 responses |-> coerced,
                 isCompleted |-> TRUE]
        withTask == IF checklist.includeWorkTasks
                    THEN ("workTaskId" :> fd.workTaskId) @@ base ELSE base
        withStation == IF checklist.includeWorkStations
                       THEN ("workStationId" :> fd.workStationId) @@ withTask
                       ELSE withTask
    IN  IF checklist.includeShifts
        THEN ("shiftId" :> fd.shiftId) @@ withStation ELSE withStation

\* the payload handleSubmit builds
SubmitData(fd, checklist) ==
    LET base == [checklistId |-> fd.checklistId,
                 operatorName |-> fd.operatorName,
                 responses |-> fd.responses,
                 isCompleted |-> TRUE]
        withTask == IF checklist.includeWorkTasks
                    THEN ("workTaskId" :> fd.workTaskId) @@ base ELSE base
        withStation == IF checklist.includeWorkStations
                       THEN ("workStationId" :> fd.workStationId) @@ withTask
                       ELSE withTask
    IN  IF checklist.includeShifts
        THEN ("shiftId" :> fd.shiftId) @@ withStation ELSE withStation

\* handleSubmit: submitMutation.mutate(submitData)
HandleSubmit ==
    /\ submitMutation' = [isPending |-> TRUE,
                          variables |-> SubmitData(formData, currentChecklist)]
    /\ closedWhilePending' = FALSE
    /\ toast' = NoToast
    /\ UNCHANGED currentStep

\* (mutant) handleNext goes on after a failed validation
HandleNextUnchecked ==
    /\ isOpen /\ ~submitMutation.isPending
    /\ IF currentStep < totalSteps + 1
       THEN /\ currentStep' = currentStep + 1
            /\ toast' = IF Len(missingFields) > 0
                        THEN MissingToast(missingFields) ELSE NoToast
            /\ UNCHANGED <<submitMutation, closedWhilePending>>
       ELSE HandleSubmit
    /\ UNCHANGED <<isOpen, formData, data>>
    /\ StartFetches
    /\ UNCHANGED browser

\* handleNext, behind a button disabled while a submission is pending
HandleNext ==
    /\ isOpen /\ ~submitMutation.isPending
    /\ IF Len(missingFields) > 0
       THEN /\ toast' = MissingToast(missingFields)
            /\ UNCHANGED <<currentStep, submitMutation, closedWhilePending>>
       ELSE IF currentStep < totalSteps + 1
            THEN /\ currentStep' = currentStep + 1
                 /\ toast' = NoToast
                 /\ UNCHANGED <<submitMutation, closedWhilePending>>
            ELSE HandleSubmit
    /\ UNCHANGED <<isOpen, formData, data>>
    /\ StartFetches
    /\ UNCHANGED browser

\* handlePrevious, behind a button disabled at step 2
HandlePrevious ==
    /\ isOpen /\ currentStep > 2
    /\ currentStep' = currentStep - 1
    /\ toast' = NoToast
    /\ UNCHANGED <<isOpen, formData, data, submitMutation, closedWhilePending>>
    /\ StartFetches
    /\ UNCHANGED browser

\* submitMutation.onSuccess: toast, resetForm(), onClose()
SubmitSuccess ==
    /\ submitMutation.isPending
    /\ submitMutation' = Idle
    /\ closedWhilePending' = FALSE
    /\ toast' = SavedToast
    /\ ResetForm
    /\ isOpen' = FALSE
    /\ UNCHANGED data
    /\ StartFetches
    /\ UNCHANGED browser

\* (mutant) onError resets the form as onSuccess does
SubmitErrorResetting ==
    /\ submitMutation.isPending
    /\ submitMutation' = Idle
    /\ closedWhilePending' = FALSE
    /\ toast' = ErrorToast
    /\ ResetForm
    /\ UNCHANGED <<isOpen, data>>
    /\ StartFetches
    /\ UNCHANGED browser

\* submitMutation.onError: toast only, whatever the error is (a 401, a server
\* error, a network failure)
SubmitError ==
    /\ submitMutation.isPending
    /\ submitMutation' = Idle
    /\ closedWhilePending' = FALSE
    /\ toast' = ErrorToast
    /\ UNCHANGED <<isOpen, currentStep, formData, data>>
    /\ StartFetches
    /\ UNCHANGED browser

----------------------------------------------------------------------------

Next ==
    \/ Open
    \/ Close
    \/ FetchChecklists
    \/ FetchChecklistWorkTasks
    \/ FetchAllWorkTasks
    \/ FetchWorkStations
    \/ FetchShifts
    \/ FetchCategories
    \/ FetchQuestions
    \/ FetchQuestionWorkTasks
    \/ SetOperatorName
    \/ SelectWorkTask
    \/ SelectWorkStation
    \/ SelectShift
    \/ SetResponse
    \/ HandleNext
    \/ HandlePrevious
    \/ SubmitSuccess
    \/ SubmitError

Spec == Init /\ [][Next]_vars

----------------------------------------------------------------------------
(* The API requests on their own: any items in localStorage, any response   *)
(* status                                                                  *)

\* apiRequest: the token read, the request sent, throwIfResNotOk
ApiRequest ==
    /\ \E status \in Statuses :
           /\ localStorage' = StorageAfter(status, localStorage)
           /\ location' = LocationAfter(status, location)
           /\ lastRequest' =
                  Request("apiRequest", Authorization(localStorage), status,
                          IF Ok(status) THEN "response" ELSE "error")
    /\ UNCHANGED form

\* the default queryFn of the query client
DefaultQueryFn ==
    /\ \E status \in Statuses :
           /\ localStorage' = StorageAfter(status, localStorage)
           /\ location' = LocationAfter(status, location)
           /\ lastRequest' =
                  Request("queryFn", Authorization(localStorage), status,
                          IF Ok(status) THEN "json" ELSE "error")
    /\ UNCHANGED form

\* getQueryFn({ on401 }): with "returnNull" a 401 yields null before
\* throwIfResNotOk is reached
GetQueryFn ==
    /\ \E status \in Statuses, on401 \in {"returnNull", "throw"} :
           IF on401 = "returnNull" /\ status = 401
           THEN /\ lastRequest' =
                       Request("getQueryFn", Authorization(localStorage),
                               status, "null")
                /\ UNCHANGED <<localStorage, location>>
           ELSE /\ localStorage' = StorageAfter(status, localStorage)
                /\ location' = LocationAfter(status, location)
                /\ lastRequest' =
                       Request("getQueryFn", Authorization(localStorage),
                               status, IF Ok(status) THEN "json" ELSE "error")
    /\ UNCHANGED form

InitAuth ==
    /\ isOpen = FALSE
    /\ currentStep = 2
    /\ formData = EmptyForm
    /\ checklists = <<>>
    /\ checklistWorkTasks = <<>>
    /\ allWorkTasks = <<>>
    /\ workStations = <<>>
    /\ shifts = <<>>
    /\ categories = <<>>
    /\ questions = <<>>
    /\ allQuestionWorkTasks = <<>>
    /\ resolved = {}
    /\ fetching = {}
    /\ submitMutation = Idle
    /\ closedWhilePending = FALSE
    /\ toast = NoToast
    /\ localStorage \in SUBSET StorageKeys
    /\ location = HomePath
    /\ lastRequest = NoRequest

NextAuth ==
    \/ ApiRequest
    \/ DefaultQueryFn
    \/ GetQueryFn

SpecAuth == InitAuth /\ [][NextAuth]_vars

----------------------------------------------------------------------------
(* The question filter on arbitrary inputs: any question list, any link     *)
(* table, any selected work task, with and without the checklist's flag    *)

\* question lists of ids 1..n, in increasing or in decreasing order
QuestionLists ==
    UNION {{[i \in 1..n |-> Question(i, 1 + (i % NumCategories), "text", FALSE)],
            [i \in 1..n |-> Question(n + 1 - i, 1 + (i % NumCategories), "text", FALSE)]} :
           n \in 0..MaxQuestions}

\* link tables: for every question id the set of work tasks it is tied to
LinkTables ==
    {Flatten([q \in 1..MaxQuestions |->
                 SelectSeq([t \in WorkTaskIds |-> QuestionWorkTask(q, t)],
                           LAMBDA qwt : qwt.workTaskId \in table[q])]) :
        table \in [1..MaxQuestions -> SUBSET WorkTaskIds]}

InitFilter ==
    /\ isOpen = TRUE
    /\ currentStep = 2
    /\ \E workTaskId \in {Null} \cup WorkTaskIds :
           formData = [EmptyForm EXCEPT !.operatorName = <<"a">>,
                                        !.workTaskId = workTaskId]
    /\ \E tasks \in BOOLEAN :
           checklists = <<Checklist(preselectedChecklistId, tasks, FALSE, FALSE)>>
    /\ checklistWorkTasks =
           [t \in WorkTaskIds |-> ChecklistWorkTask(preselectedChecklistId, t)]
    /\ allWorkTasks = [t \in WorkTaskIds |-> WorkTask(t, FALSE)]
    /\ workStations = <<>>
    /\ shifts = <<>>
    /\ categories = [c \in CategoryIds |-> Category(c)]
    /\ questions \in QuestionLists
    /\ allQuestionWorkTasks \in LinkTables
    /\ resolved = QueryNames
    /\ fetching = {}
    /\ submitMutation = Idle
    /\ closedWhilePending = FALSE
    /\ toast = NoToast
    /\ SignedIn

NextFilter == SelectWorkTask

SpecFilter == InitFilter /\ [][NextFilter]_vars

----------------------------------------------------------------------------
(* The identification step on arbitrary inputs: any checklist flags (or no  *)
(* checklist), any session fields, any candidate work tasks                *)

\* the entries of s whose index is in keep, in order
Pick(s, keep) ==
    LET picked == SelectSeq([i \in DOMAIN s |-> [at |-> i, item |-> s[i]]],
                            LAMBDA e : e.at \in keep)
    IN  [i \in DOMAIN picked |-> picked[i].item]

InitIdentification ==
    /\ isOpen = TRUE
    /\ currentStep = 2
    /\ \E name \in SeqsUpTo(NameChars, MaxNameLen + 1),
          workTaskId \in {Null} \cup WorkTaskIds,
          workStationId \in {Null} \cup WorkTaskIds,
          shiftId \in {Null} \cup {shift.id : shift \in Range(ServerShifts)} :
           formData = [EmptyForm EXCEPT !.operatorName = name,
                                        !.workTaskId = workTaskId,
                                        !.workStationId = workStationId,
                                        !.shiftId = shiftId]
    /\ \/ checklists = <<>>
       \/ \E tasks, stations, shiftsToo \in BOOLEAN :
              checklists =
                  <<Checklist(preselectedChecklistId, tasks, stations, shiftsToo)>>
    /\ \E linked \in SUBSET WorkTaskIds :
           checklistWorkTasks =
               Pick([t \in WorkTaskIds |->
                        ChecklistWorkTask(preselectedChecklistId, t)], linked)
    /\ \E hasStations \in [WorkTaskIds -> BOOLEAN] :
           allWorkTasks = [t \in WorkTaskIds |-> WorkTask(t, hasStations[t])]
    /\ workStations = [t \in WorkTaskIds |-> WorkStation(t, t)]
    /\ shifts = ServerShifts
    /\ categories = ServerCategories
    /\ questions = AllQuestions(ServerCategories, {})
    /\ allQuestionWorkTasks = <<>>
    /\ resolved = QueryNames
    /\ fetching = {}
    /\ submitMutation = Idle
    /\ closedWhilePending = FALSE
    /\ toast = NoToast
    /\ SignedIn

NextIdentification == HandleNext

SpecIdentification == InitIdentification /\ [][NextIdentification]_vars

----------------------------------------------------------------------------
(* A question step on arbitrary inputs: any questions of the category, any  *)
(* stored responses                                                        *)

StepQuestionTypes == {"check", "val", "nummer", "ja_nej"}

\* values a responses record may hold for a key
StoredValues ==
    {JsUndefined, JsNull, JsBool(TRUE), JsBool(FALSE), JsNum(0), JsStr(""), JsStr("A")}

\* the responses records over the keys 1..n: every key absent or holding a
\* stored value
ResponseRecords(n) ==
    UNION {[keys -> StoredValues] : keys \in SUBSET (1..n)}

InitQuestionStep ==
    /\ isOpen = TRUE
    /\ currentStep = 3
    /\ \E n \in 1..MaxStepQuestions :
           /\ \E type \in [1..n -> StepQuestionTypes],
                 isRequired \in [1..n -> BOOLEAN] :
                  questions = [i \in 1..n |-> Question(i, 1, type[i], isRequired[i])]
           /\ \E responses \in ResponseRecords(n) :
                  formData = [EmptyForm EXCEPT !.operatorName = <<"a">>,
                                               !.responses = responses]
    /\ checklists = <<Checklist(preselectedChecklistId, FALSE, FALSE, FALSE)>>
    /\ checklistWorkTasks = <<>>
    /\ allWorkTasks = <<>>
    /\ workStations = <<>>
    /\ shifts = <<>>
    /\ categories = <<Category(1)>>
    /\ allQuestionWorkTasks = <<>>
    /\ resolved = QueryNames
    /\ fetching = {}
    /\ submitMutation = Idle
    /\ closedWhilePending = FALSE
    /\ toast = NoToast
    /\ SignedIn

NextQuestionStep == SetResponse \/ HandleNext

SpecQuestionStep == InitQuestionStep /\ [][NextQuestionStep]_vars

----------------------------------------------------------------------------
(* Question Filter *)

LinksOf(q) == {qwt \in Range(allQuestionWorkTasks) : qwt.questionId = q.id}

\* C1: when the checklist uses work tasks and a work task is selected, a
\* question of the list is in filteredQuestions exactly when it has no link
\* or one of its links names the selected work task; nothing else is in it.
C1_FilterByWorkTask ==
    (currentChecklist.includeWorkTasks /\ formData.workTaskId # Null) =>
        /\ \A q \in Range(questions) :
               q \in Range(filteredQuestions) <=>
                   \/ LinksOf(q) = {}
                   \/ \E qwt \in LinksOf(q) : qwt.workTaskId = formData.workTaskId
        /\ Range(filteredQuestions) \subseteq Range(questions)

\* a selected task under which one linked question shows, one linked question
\* is hidden and one question without links shows
C1_Witness ==
    /\ currentChecklist.includeWorkTasks /\ formData.workTaskId # Null
    /\ \E q \in Range(questions) :
           LinksOf(q) # {} /\ q \in Range(filteredQuestions)
    /\ \E q \in Range(questions) :
           LinksOf(q) # {} /\ q \notin Range(filteredQuestions)
    /\ \E q \in Range(questions) :
           LinksOf(q) = {} /\ q \in Range(filteredQuestions)

\* C2: without the includeWorkTasks flag, or with no work task selected,
\* filteredQuestions is the question list itself, whatever the links are.
C2_UnfilteredWithoutWorkTask ==
    (~currentChecklist.includeWorkTasks \/ formData.workTaskId = Null) =>
        filteredQuestions = questions

\* a checklist without the flag, a work task set, and links that would hide
\* a question under that task: all questions are kept, in order
C2_Witness ==
    /\ ~currentChecklist.includeWorkTasks /\ formData.workTaskId # Null
    /\ Len(questions) = MaxQuestions
    /\ \E q \in Range(questions) :
           /\ LinksOf(q) # {}
           /\ \A qwt \in LinksOf(q) : qwt.workTaskId # formData.workTaskId
    /\ filteredQuestions = questions

----------------------------------------------------------------------------
(* Step Planner *)

HasQuestions(category) ==
    \E q \in Range(filteredQuestions) : q.categoryId = category.id

PositionOf(category) == CHOOSE i \in DOMAIN categories : categories[i] = category

\* C3: categoriesWithQuestions holds exactly the categories with a question
\* in filteredQuestions, each once and in the order of the category list,
\* and totalSteps is 1 plus their number.
C3_NoEmptySteps ==
    /\ \A k \in DOMAIN categoriesWithQuestions :
           /\ categoriesWithQuestions[k] \in Range(categories)
           /\ HasQuestions(categoriesWithQuestions[k])
    /\ \A c \in Range(categories) :
           HasQuestions(c) => c \in Range(categoriesWithQuestions)
    /\ \A k1, k2 \in DOMAIN categoriesWithQuestions :
           k1 < k2 => PositionOf(categoriesWithQuestions[k1])
                          < PositionOf(categoriesWithQuestions[k2])
    /\ totalSteps = 1 + Cardinality({c \in Range(categories) : HasQuestions(c)})

\* work task 1 is selected and the only question of category 2 is tied to
\* work task 2: category 2 has a question, none is left after filtering, and
\* the plan holds category 1 alone
C3_Witness ==
    /\ formData.workTaskId = 1
    /\ \E q \in Range(questions) : q.categoryId = 2
    /\ \E q \in Range(questions) : q.categoryId = 1
    /\ ~HasQuestions(Category(2))
    /\ categoriesWithQuestions = <<Category(1)>>
    /\ totalSteps = 2

----------------------------------------------------------------------------
(* Step Validator *)

SubmissionStarts == ~submitMutation.isPending /\ submitMutation'.isPending

\* C4: from a state whose current step has a missing field no event advances
\* currentStep or starts a submission, and handleNext leaves currentStep,
\* formData and the mutation as they are and raises one notification holding
\* every missing label.
C4_FailureBlocksAdvance ==
    [][Len(missingFields) > 0 =>
          /\ ~(currentStep' > currentStep)
          /\ ~SubmissionStarts
          /\ HandleNext =>
                 /\ currentStep' = currentStep
                 /\ formData' = formData
                 /\ submitMutation' = submitMutation
                 /\ toast' = MissingToast(missingFields)]_vars

\* handleNext has raised a notification naming two missing fields, at the
\* identification step
C4_Witness ==
    /\ toast.title = MissingToast(<<>>).title
    /\ Len(toast.fields) >= 2
    /\ toast.fields = missingFields
    /\ currentStep = 2
    /\ ~submitMutation.isPending

AllBlank(name) == \A i \in DOMAIN name : name[i] = Blank

OperatorMissing == AllBlank(formData.operatorName)
WorkTaskMissing ==
    currentChecklist.includeWorkTasks /\ formData.workTaskId = Null
WorkStationMissing ==
    /\ currentChecklist.includeWorkStations
    /\ formData.workTaskId # Null
    /\ \E task \in Range(workTasks) :
           task.id = formData.workTaskId /\ task.hasStations
    /\ formData.workStationId = Null
ShiftMissing ==
    currentChecklist.includeShifts /\ formData.shiftId = Null

IdentificationLabels ==
    <<OperatorLabel, WorkTaskLabel, WorkStationLabel, ShiftLabel>>

RankOf(label) ==
    CHOOSE i \in DOMAIN IdentificationLabels : IdentificationLabels[i] = label

\* C5: at the identification step the missing list holds the label of every
\* violated rule and of no other, each once, in the order operator name, work
\* task, work station, shift.
C5_AllRulesCollected ==
    currentStep = 2 =>
        /\ Range(missingFields) \subseteq Range(IdentificationLabels)
        /\ OperatorLabel \in Range(missingFields) <=> OperatorMissing
        /\ WorkTaskLabel \in Range(missingFields) <=> WorkTaskMissing
        /\ WorkStationLabel \in Range(missingFields) <=> WorkStationMissing
        /\ ShiftLabel \in Range(missingFields) <=> ShiftMissing
        /\ \A i, j \in DOMAIN missingFields :
               i < j => RankOf(missingFields[i]) < RankOf(missingFields[j])

\* handleNext has reported three fields at once, the station among them (the
\* work task and the work station are never missing together)
C5_Witness ==
    /\ currentStep = 2
    /\ toast = MissingToast(<<OperatorLabel, WorkStationLabel, ShiftLabel>>)
    /\ toast.fields = missingFields

\* C6: at the identification step the work station is reported exactly when
\* the checklist includes work stations, a work task is selected, that task
\* has stations and no station is selected; a selected task without stations
\* never makes the station required.
C6_StationRequiredOnlyWithStations ==
    currentStep = 2 =>
        /\ WorkStationLabel \in Range(missingFields) <=>
               /\ currentChecklist.includeWorkStations
               /\ formData.workTaskId # Null
               /\ \E task \in Range(workTasks) :
                      task.id = formData.workTaskId /\ task.hasStations
               /\ formData.workStationId = Null
        /\ (\E task \in Range(workTasks) :
                task.id = formData.workTaskId /\ ~task.hasStations)
               => WorkStationLabel \notin Range(missingFields)

\* a checklist with work tasks and stations and without shifts, work task 1
\* with stations selected, no station: handleNext reports the station alone
C6_Witness ==
    /\ currentStep = 2
    /\ currentChecklist.includeWorkTasks
    /\ currentChecklist.includeWorkStations
    /\ ~currentChecklist.includeShifts
    /\ formData.workTaskId = 1
    /\ formData.workStationId = Null
    /\ toast = MissingToast(<<WorkStationLabel>>)

\* C7: a name of blanks only is reported at the identification step, no
\* later step is reached with such a name and no payload is sent with one.
C7_BlankNameNeverPasses ==
    /\ (currentStep = 2 /\ AllBlank(formData.operatorName))
           => OperatorLabel \in Range(missingFields)
    /\ currentStep > 2 => ~AllBlank(formData.operatorName)
    /\ submitMutation.isPending
           => ~AllBlank(submitMutation.variables.operatorName)

\* a name of one blank, which handleNext has refused
C7_Witness ==
    /\ currentStep = 2
    /\ formData.operatorName = <<Blank>>
    /\ OperatorLabel \in Range(toast.fields)

\* C8: for a checklist without includeWorkTasks the work task is not
\* reported at the identification step whatever workTaskId holds, and the
\* checklist's work tasks are not fetched.
C8_NoWorkTaskWithoutFlag ==
    ~currentChecklist.includeWorkTasks =>
        /\ \A workTaskId \in {Null} \cup WorkTaskIds :
               WorkTaskLabel \notin
                   Range(MissingFields(2,
                                       [formData EXCEPT !.workTaskId = workTaskId],
                                       currentChecklist, workTasks,
                                       categoriesWithQuestions, filteredQuestions))
        /\ "checklistWorkTasks" \notin resolved

\* a loaded checklist without the flag whose identification step was passed
\* with no work task
C8_Witness ==
    /\ currentChecklist.found
    /\ ~currentChecklist.includeWorkTasks
    /\ formData.workTaskId = Null
    /\ currentStep = 3

StepQuestions ==
    Range(CategoryQuestions(currentStep, categoriesWithQuestions,
                            filteredQuestions))

Reported(q) == QuestionLabel(q) \in Range(missingFields)

Holds(q, value) ==
    q.id \in DOMAIN formData.responses /\ formData.responses[q.id] = value

\* C9: a required checkbox question of the current category step is
\* reported missing unless its response is the boolean true.
C9_CheckboxNeedsTrue ==
    currentStep >= 3 =>
        \A q \in StepQuestions :
            (q.isRequired /\ q.type = "check") =>
                (Reported(q) <=> ~Holds(q, JsBool(TRUE)))

\* handleNext has reported a required checkbox whose response is false
C9_Witness ==
    /\ currentStep >= 3
    /\ \E q \in StepQuestions :
           /\ q.isRequired /\ q.type = "check"
           /\ Holds(q, JsBool(FALSE))
           /\ QuestionLabel(q) \in Range(toast.fields)

C10_Empty(q) ==
    \/ q.id \notin DOMAIN formData.responses
    \/ Holds(q, JsUndefined)
    \/ Holds(q, JsNull)
    \/ Holds(q, JsStr(""))

C10_OptionSelected(q) ==
    /\ q.type = "val" /\ q.isRequired /\ Reported(q)
    /\ currentStep' = currentStep
    /\ q.id \in DOMAIN formData'.responses
    /\ \E i \in DOMAIN q.options : formData'.responses[q.id] = JsStr(q.options[i])

\* C10: a required question of another type of the current category step is
\* reported missing exactly when its response is absent, undefined, null or
\* the empty string (false and 0 are answers); and selecting an option of a
\* reported single-choice question ends its being reported.
C10_OtherTypesNeedNonEmpty ==
    /\ [](currentStep >= 3 =>
              \A q \in StepQuestions :
                  (q.isRequired /\ q.type # "check") =>
                      (Reported(q) <=> C10_Empty(q)))
    /\ [][\A q \in StepQuestions :
              C10_OptionSelected(q) => ~Reported(q)']_vars

\* a required number question answered 0 and a required yes/no question
\* answered false, with which handleNext has started the submission
C10_Witness ==
    /\ currentStep = 3
    /\ submitMutation.isPending
    /\ \E q \in StepQuestions :
           q.isRequired /\ q.type = "nummer" /\ Holds(q, JsNum(0))
    /\ \E q \in StepQuestions :
           q.isRequired /\ q.type = "ja_nej" /\ Holds(q, JsBool(FALSE))

----------------------------------------------------------------------------
(* Submission Assembler *)

C11_KeysFollowFlags(payload, checklist) ==
    /\ ("workTaskId" \in DOMAIN payload) <=> checklist.includeWorkTasks
    /\ ("workStationId" \in DOMAIN payload) <=> checklist.includeWorkStations
    /\ ("shiftId" \in DOMAIN payload) <=> checklist.includeShifts

\* C11: the payload holds the key workTaskId exactly when the checklist
\* includes work tasks, workStationId exactly when it includes work stations
\* and shiftId exactly when it includes shifts, whatever the other two flags
\* are and whether the stored id is null or not; and so does every payload a
\* submission is started with.
C11_OptionalKeysFollowFlags ==
    /\ [](\A workTaskId \in {Null} \cup WorkTaskIds,
             workStationId \in {Null} \cup WorkTaskIds,
             shiftId \in {Null} \cup {shift.id : shift \in Range(ServerShifts)} :
              C11_KeysFollowFlags(
                  SubmitData([formData EXCEPT !.workTaskId = workTaskId,
                                              !.workStationId = workStationId,
                                              !.shiftId = shiftId],
                             currentChecklist),
                  currentChecklist))
    /\ [][SubmissionStarts =>
              C11_KeysFollowFlags(submitMutation'.variables, currentChecklist)]_vars

\* a submission of a checklist with work tasks and stations and without
\* shifts, sent with a work task and a null work station
C11_Witness ==
    /\ submitMutation.isPending
    /\ currentChecklist.includeWorkTasks
    /\ currentChecklist.includeWorkStations
    /\ ~currentChecklist.includeShifts
    /\ DOMAIN submitMutation.variables =
           {"checklistId", "operatorName", "responses", "isCompleted",
            "workTaskId", "workStationId"}
    /\ submitMutation.variables.workTaskId # Null
    /\ submitMutation.variables.workStationId = Null

\* C12: the payload a submission is started with holds checklistId,
\* operatorName, isCompleted = true and responses, and its responses are the
\* session's responses record as it is at that moment, key for key and value
\* for value.
C12_BaseFieldsAndResponses ==
    [][SubmissionStarts =>
          LET payload == submitMutation'.variables
          IN  /\ {"checklistId", "operatorName", "responses", "isCompleted"}
                     \subseteq DOMAIN payload
              /\ payload.checklistId = formData.checklistId
              /\ payload.operatorName = formData.operatorName
              /\ payload.isCompleted = TRUE
              /\ DOMAIN payload.responses = DOMAIN formData.responses
              /\ \A id \in DOMAIN formData.responses :
                     payload.responses[id] = formData.responses[id]]_vars

\* a pending submission carrying the three answers of the session, a
\* boolean and two strings
C12_Witness ==
    /\ submitMutation.isPending
    /\ DOMAIN formData.responses = {1, 2, 3}
    /\ submitMutation.variables.responses = formData.responses
    /\ formData.responses[1] = JsBool(TRUE)
    /\ formData.responses[2] = JsStr("B")
    /\ formData.responses[3] = JsStr("A")
    /\ submitMutation.variables.isCompleted = TRUE

\* C13: when no category has a question left after filtering, totalSteps is
\* 1 and no step shows a question; handleNext at the identification step,
\* when nothing is missing, starts the submission and leaves currentStep as
\* it is.
C13_ZeroCategoriesSubmit ==
    /\ [](Len(categoriesWithQuestions) = 0 =>
              /\ totalSteps = 1
              /\ \A step \in 2..(3 + NumCategories) :
                     CategoryQuestions(step, categoriesWithQuestions,
                                       filteredQuestions) = <<>>)
    /\ [][(/\ Len(categoriesWithQuestions) = 0
           /\ currentStep = 2
           /\ Len(missingFields) = 0
           /\ HandleNext)
              => /\ SubmissionStarts
                 /\ currentStep' = currentStep]_vars

\* the categories are loaded, the questions of each of them failed to load,
\* and the identification step's next button has started the submission
C13_Witness ==
    /\ {"categories", "questions"} \subseteq resolved
    /\ Len(categories) > 0
    /\ Len(categoriesWithQuestions) = 0
    /\ currentStep = 2
    /\ submitMutation.isPending

----------------------------------------------------------------------------
(* Work task and work station of the session *)

SelectedTaskHasStations(fd, wts) ==
    \E task \in Range(wts) : task.id = fd.workTaskId /\ task.hasStations

StationMeaningful(fd, wts) ==
    fd.workStationId # Null =>
        fd.workTaskId # Null /\ SelectedTaskHasStations(fd, wts)

\* candidate lists of a checklist: any sub-list of the work tasks
CandidateLists == {Pick(allWorkTasks, keep) : keep \in SUBSET DOMAIN allWorkTasks}

\* C14: a work station is held only together with a work task that has
\* stations; an event that changes the work task to one without stations, or
\* to none, leaves no work station; and so does a change of checklist,
\* whatever the session holds and whatever the new checklist's candidates are.
C14_StationOnlyWithStationTask ==
    /\ []StationMeaningful(formData, workTasks)
    /\ [][(/\ formData'.workTaskId # formData.workTaskId
           /\ ~SelectedTaskHasStations(formData', workTasks'))
              => formData'.workStationId = Null]_vars
    /\ [](\A id \in {preselectedChecklistId, preselectedChecklistId + 1},
             wts \in CandidateLists :
              StationMeaningful(AutoSelect(ChecklistChanged(formData, id), wts),
                                wts))

\* the station of work task 1 was selected and the work task then changed to
\* work task 2, which has stations too: the station is kept
C14_Witness ==
    /\ formData.workTaskId = 2
    /\ formData.workStationId = 1
    /\ SelectedTaskHasStations(formData, workTasks)

\* C15: with exactly one candidate work task the session holds that task,
\* selected by the effect when none was; with no candidate it holds neither
\* a work task nor a work station; and the effect, run on any session fields
\* with an empty candidate list, clears both.
C15_AutoSelectSingleCandidate ==
    /\ [](Len(workTasks) = 1 => formData.workTaskId = workTasks[1].id)
    /\ [](Len(workTasks) = 0 =>
              formData.workTaskId = Null /\ formData.workStationId = Null)
    /\ [][(Len(workTasks') = 1 /\ formData.workTaskId = Null)
              => formData'.workTaskId = workTasks'[1].id]_vars
    /\ [](\A workTaskId \in WorkTaskIds,
             workStationId \in {Null} \cup WorkTaskIds :
              LET cleared ==
                      AutoSelect([formData EXCEPT !.workTaskId = workTaskId,
                                                  !.workStationId = workStationId],
                                 <<>>)
              IN  cleared.workTaskId = Null /\ cleared.workStationId = Null)

\* the checklist has one candidate work task and the fresh session holds
\* it, the user having chosen nothing
C15_Witness ==
    /\ isOpen
    /\ Len(workTasks) = 1
    /\ formData.workTaskId = workTasks[1].id
    /\ formData.operatorName = <<>>
    /\ formData.workStationId = Null

----------------------------------------------------------------------------
(* Asynchronous data *)

PlanInputs == {"categories", "questions", "allQuestionWorkTasks"}

\* C16: as long as one of the categories, the questions and the
\* question-work-task links has not resolved, the plan is empty: no category
\* step, totalSteps = 1.
C16_EmptyPlanUntilResolved ==
    ~(PlanInputs \subseteq resolved) =>
        /\ categoriesWithQuestions = <<>>
        /\ totalSteps = 1

FetchCompletes == resolved' # resolved

SubmissionCompletes == submitMutation.isPending /\ ~submitMutation'.isPending

SubmissionSucceeds == SubmissionCompletes /\ toast' = SavedToast

SubmissionFails == SubmissionCompletes /\ toast' = ErrorToast

SessionUnchanged ==
    /\ formData' = formData
    /\ currentStep' = currentStep
    /\ isOpen' = isOpen

\* C17: the completion of a fetch while the modal is closed, and the
\* completion of a submission after the modal was closed (closed still, or
\* opened again), leave formData, currentStep and isOpen as they are.
C17_StaleResultsIgnored ==
    [][(\/ ~isOpen /\ FetchCompletes
        \/ closedWhilePending /\ SubmissionCompletes)
          => SessionUnchanged]_vars

----------------------------------------------------------------------------
(* Submission results *)

\* C18 as stated: a successful submission leaves currentStep = 2, every
\* session field at its initial value (workTaskId null among them) and the
\* form closed.
C18_SuccessResetsAll ==
    [][SubmissionSucceeds =>
          /\ currentStep' = 2
          /\ formData' = EmptyForm
          /\ ~isOpen']_vars

\* C18 (amended): a successful submission leaves currentStep = 2, the form
\* closed, operatorName empty, workStationId and shiftId null, responses
\* empty and checklistId the preselected checklist; workTaskId is null
\* unless the checklist has exactly one candidate work task, which the
\* auto-select effect selects again.
C18_SuccessResetsThenAutoSelects ==
    [][SubmissionSucceeds =>
          /\ currentStep' = 2
          /\ ~isOpen'
          /\ formData' =
                 [EmptyForm EXCEPT
                     !.workTaskId = IF Len(workTasks) = 1
                                    THEN workTasks[1].id ELSE Null]]_vars

\* right after a successful submission of a checklist with one candidate work
\* task: the form is closed and reset, the candidate selected again
C18_Witness ==
    /\ toast = SavedToast
    /\ ~isOpen
    /\ currentStep = 2
    /\ Len(workTasks) = 1
    /\ formData = [EmptyForm EXCEPT !.workTaskId = workTasks[1].id]

----------------------------------------------------------------------------
(* Failures of single requests *)

QuestionsOf(qs, categoryId) == SelectSeq(qs, LAMBDA q : q.categoryId = categoryId)

LinksOfQuestion(links, questionId) ==
    SelectSeq(links, LAMBDA qwt : qwt.questionId = questionId)

\* C20: whichever requests fail, the questions fetch yields no question of a
\* category whose request failed and every question of each other category;
\* the links fetch yields no link of a question whose request failed and
\* every link of each other question; and the data of a completed fetch is
\* of that shape.
C20_PartialFailureNotFatal ==
    /\ \A failed \in SUBSET {c.id : c \in Range(categories)} :
           \A c \in Range(categories) :
               QuestionsOf(AllQuestions(categories, failed), c.id) =
                   IF c.id \in failed THEN <<>> ELSE ServerQuestions(c.id)
    /\ \A failed \in SUBSET {q.id : q \in Range(questions)} :
           \A q \in Range(questions) :
               LinksOfQuestion(AllQuestionWorkTasks(questions, failed), q.id) =
                   IF q.id \in failed THEN <<>> ELSE ServerQuestionWorkTasks(q.id)
    /\ "questions" \in resolved =>
           \A c \in Range(categories) :
               QuestionsOf(questions, c.id) \in {<<>>, ServerQuestions(c.id)}
    /\ "allQuestionWorkTasks" \in resolved =>
           \A q \in Range(questions) :
               LinksOfQuestion(allQuestionWorkTasks, q.id)
                   \in {<<>>, ServerQuestionWorkTasks(q.id)}

\* the questions fetch has completed although the request of the first
\* category failed: the questions of the second category are held
C20_Witness ==
    /\ "questions" \in resolved
    /\ Len(categories) = 2
    /\ questions = ServerQuestions(categories[2].id)
    /\ ServerQuestions(categories[1].id) # <<>>

----------------------------------------------------------------------------
(* The navigation gate *)

\* C21: canProceed is true exactly when validateCurrentStep finds no missing
\* field, in every reachable state.
C21_GateAgreesWithValidator ==
    canProceed <=> (Len(missingFields) = 0)

----------------------------------------------------------------------------
(* Unauthorized responses *)

\* C22: after a request made by apiRequest or by the default queryFn received
\* a 401, no Authorization header would be attached from localStorage any
\* more, the location is the login entry point and the request ended with an
\* error.
C22_UnauthorizedClearsCredentials ==
    (lastRequest.status = 401 /\ lastRequest.via \in {"apiRequest", "queryFn"})
        => /\ ~Authorization(localStorage)
           /\ location = LoginPath
           /\ lastRequest.result = "error"

----------------------------------------------------------------------------
(* The step counter and the progress value *)

\* C23: in every reachable state the progress value lies between 0 and 100
\* and is 0 on the identification step; when the plan has more than one step
\* (otherwise the value is 0 by definition) it is 100 exactly on the last
\* step, currentStep = totalSteps + 1.
C23_ProgressWithinRange ==
    /\ 0 <= progress.num
    /\ progress.num <= 100 * progress.den
    /\ (currentStep = 2) => (progress.num = 0)
    /\ (totalSteps > 1) =>
           ((currentStep = totalSteps + 1)
               <=> (progress.num = 100 * progress.den))

\* C24: in every reachable state 2 <= currentStep <= totalSteps + 1.
C24_StepWithinPlan ==
    /\ 2 <= currentStep
    /\ currentStep <= totalSteps + 1

----------------------------------------------------------------------------
(* What a started submission has been validated against *)

\* the identification rules hold and every required question visible under
\* the selected work task has a valid response
AllRequiredAnswered ==
    /\ Len(IdentificationMissing(formData, currentChecklist, workTasks)) = 0
    /\ \A q \in Range(filteredQuestions) :
           q.isRequired => ~Unanswered(q, Lookup(formData.responses, q.id))

\* C25: whenever a submission is started, the identification rules hold and
\* every required question that is visible under the selected work task has
\* a valid response.
C25_SubmitOnlyWhenAnswered ==
    [][SubmissionStarts => AllRequiredAnswered]_vars

----------------------------------------------------------------------------
(* The selected station and the selected work task *)

\* C26: in every reachable state a non-null workStationId is the id of a
\* station of the selected work task.
C26_StationBelongsToTask ==
    (formData.workStationId # Null) =>
        \E station \in Range(workStations) :
            /\ station.id = formData.workStationId
            /\ station.workTaskId = formData.workTaskId

----------------------------------------------------------------------------
(* The responses a submission carries *)

\* C27: every key of the responses map of a submitted payload is the id of a
\* question visible under the work task selected when the submission starts.
C27_PayloadKeysVisible ==
    [][SubmissionStarts =>
          \A id \in DOMAIN submitMutation'.variables.responses :
              \E q \in Range(filteredQuestions) : q.id = id]_vars

----------------------------------------------------------------------------
(* Closing the modal *)

\* the modal is closed by this step
ModalCloses == isOpen /\ ~isOpen'

\* C28 as stated: whenever the modal is closed, currentStep returns to 2 and
\* formData to its initial value, workTaskId null among its fields.
C28_CloseResetsAll ==
    [][ModalCloses =>
          /\ currentStep' = 2
          /\ formData' = EmptyForm]_vars

\* C28 (amended): whenever the modal is closed, currentStep returns to 2,
\* operatorName is empty, workStationId and shiftId are null, responses is
\* empty and checklistId is the preselected checklist; workTaskId is null
\* unless the checklist has exactly one candidate work task, which the
\* auto-select effect selects again.
C28_CloseResetsThenAutoSelects ==
    [][ModalCloses =>
          /\ currentStep' = 2
          /\ formData' =
                 [EmptyForm EXCEPT
                     !.workTaskId = IF Len(workTasks) = 1
                                    THEN workTasks[1].id ELSE Null]]_vars

\* the modal was closed while a submission carrying the operator's name was
\* pending: the form is back at step 2 with an empty name, and the single
\* candidate work task is selected again
C28_Witness ==
    /\ ~isOpen
    /\ closedWhilePending
    /\ submitMutation.isPending
    /\ submitMutation.variables.operatorName # <<>>
    /\ currentStep = 2
    /\ formData.operatorName = <<>>
    /\ formData.responses = NoResponses
    /\ Len(workTasks) = 1
    /\ formData.workTaskId = workTasks[1].id

============================================================================
